---- MODULE Spec2Model ----
(***************************************************************************)
(* Model of the near-teller contract (src/src/lib.rs,                       *)
(* src/src/implementation.rs): a token guard that meters how many tokens    *)
(* may leave the account per unit of elapsed time.                          *)
(*                                                                          *)
(* Units.  The contract counts time in nanoseconds (u64) and amounts in     *)
(* yocto NEAR (u128).  The model counts time in ticks of 10^17 ns and       *)
(* amounts in units of 10^23 yocto, which is an exact rescaling of the      *)
(* contract's arithmetic for timestamps that are whole ticks:               *)
(*   n as u128 * 10u128.pow(24)            is  n * 10           units,      *)
(*   ns as u128 * rate * 10u128.pow(6)     is  ticks * rate     units.      *)
(* One NEAR is therefore 10 units, and hot() need not be a whole NEAR.      *)
(***************************************************************************)
EXTENDS Integers, Sequences, FiniteSets, TLC

(* ------------------------------ bounds --------------------------------- *)

\* largest CONFIG.nano_near_per_second explored (config.ron is a build input)
MaxRate == 4

\* largest block timestamp explored, in ticks
MaxTime == 6

\* largest whole-NEAR argument n explored
MaxNear == 2

\* width of Balance explored: u128 is 128 bits wide, far outside the amounts
\* explored, so the range checks are made against a width scaled down to them
BalanceBits == 4

(* --------------------------- program constants ------------------------- *)

\* 10u128.pow(24) yocto per NEAR, in units of 10^23 yocto
YoctoPerNear == 10

\* staking_pools: [&'static str; 10]
NumPools == 10

\* env::current_account_id() of the deployed contract (get_context in the tests)
current_account_id == "teller.near"

\* callers explored: the contract account itself and a foreign account
Accounts == {"teller.near", "max.near"}

\* pool indexes explored: the first slot, the last slot, one past the end
PoolIndexes == {0, NumPools - 1, NumPools}

\* receivers of pay explored
Receivers == {"max.near", "bob.near"}

\* CONFIG.staking_pools: the ten pre-installed pool accounts
staking_pools == [i \in 0..(NumPools - 1) |-> <<"pool", i>>]

\* pool strings that parse as an AccountId
ValidPoolIds == {<<"pool", i>> : i \in 0..(NumPools - 1)}

VARIABLES
    status,       \* "uninit" until init ran (PanicOnDefault), then "active"
    t0,           \* Teller.t0: timestamp of init
    locked,       \* Teller.locked: amount retrieved or forgone
    now,          \* env::block_timestamp()
    rate,         \* CONFIG.nano_near_per_second, fixed at build time
    transferred,  \* history: sum of the amounts of all transfers dispatched
    forgone,      \* history: sum of the amounts of all successful lock calls
    touched,      \* history: some pay or lock has succeeded since init
    last          \* the last step: the call, its outcome, the actions it dispatched

vars == <<status, t0, locked, now, rate, transferred, forgone, touched, last>>

NoPool == <<"none", 0>>

\* the record of one step
Step(op, caller, n, i, to, result, ret, actions) ==
    [op |-> op, caller |-> caller, n |-> n, i |-> i, to |-> to,
     result |-> result, ret |-> ret, actions |-> actions, s |-> <<>>]

\* the record of one call of a base-unit variant, whose amount is the string s
YoctoStep(op, caller, s, to, result, actions) ==
    [Step(op, caller, 0, 0, to, result, 0, actions) EXCEPT !.s = s]

(* ------------------------ outbound actions ----------------------------- *)

\* env::promise_batch_create(receiver); env::promise_batch_action_transfer(index, yocto)
Transfer(receiver, yocto) ==
    [kind |-> "transfer", to |-> receiver, method |-> "", deposit |-> yocto,
     gas |-> 0, weight |-> 0]

\* env::promise_batch_create(pool); env::promise_batch_action_function_call_weight(..)
FunctionCall(pool, method, deposit, gas, weight) ==
    [kind |-> "function_call", to |-> pool, method |-> method, deposit |-> deposit,
     gas |-> gas, weight |-> weight]

\* the sum of the amounts of the transfers among the dispatched actions
RECURSIVE TransferSum(_)
TransferSum(actions) ==
    IF actions = <<>>
    THEN 0
    ELSE (IF Head(actions).kind = "transfer" THEN Head(actions).deposit ELSE 0)
         + TransferSum(Tail(actions))

(* ----------------------------- the ledger ------------------------------ *)

\* n as u128 * 10u128.pow(24)
NearToYocto(n) == n * YoctoPerNear

\* ns as u128 * CONFIG.nano_near_per_second * 10u128.pow(6)
\* (fault variant: the elapsed time taken from 0 instead of from t0)
available_ever_abs == now * rate

\* (fault variant: the elapsed time is halved by a wrong unit conversion)
available_ever_slow == ((now - t0) \div 2) * rate

available_ever == (now - t0) * rate

\* Teller::hot
\* (fault variant: locked is not subtracted)
hot_gross == available_ever

hot == available_ever - locked

\* Teller::check_access
check_access(caller) ==
    IF current_account_id = caller THEN "Ok" ELSE "ForeignAccountNotAllowed"

\* Teller::try_lock: the outcome and the new value of locked
\* (fault variant: no comparison with hot)
try_lock_unchecked(yocto) == [res |-> "Ok", locked |-> locked + yocto]

\* (fault variant: locked is increased before the comparison and not restored)
try_lock_dirty(yocto) ==
    IF hot < yocto
    THEN [res |-> "NotEnoughHot", locked |-> locked + yocto]
    ELSE [res |-> "Ok", locked |-> locked + yocto]

\* (fault variant: <= in place of <)
try_lock_strict(yocto) ==
    IF hot <= yocto
    THEN [res |-> "NotEnoughHot", locked |-> locked]
    ELSE [res |-> "Ok", locked |-> locked + yocto]

try_lock(yocto) ==
    IF hot < yocto
    THEN [res |-> "NotEnoughHot", locked |-> locked]
    ELSE [res |-> "Ok", locked |-> locked + yocto]

\* the outcome of an _impl method: its result, self.locked as it leaves it,
\* and the actions it dispatched
Outcome(res, l, actions) == [res |-> res, locked |-> l, actions |-> actions]

\* Teller::pay_impl
\* (fault variant: the transfer is dispatched without try_lock)
pay_impl_nolock(caller, yocto, receiver) ==
    IF check_access(caller) # "Ok"
    THEN Outcome(check_access(caller), locked, <<>>)
    ELSE Outcome("Ok", locked, <<Transfer(receiver, yocto)>>)

\* (fault variant: the transfer is dispatched before try_lock is consulted)
pay_impl_dispatch_first(caller, yocto, receiver) ==
    IF check_access(caller) # "Ok"
    THEN Outcome(check_access(caller), locked, <<>>)
    ELSE LET r == try_lock(yocto) IN
         Outcome(r.res, r.locked, <<Transfer(receiver, yocto)>>)

\* (fault variant: try_lock runs before check_access)
pay_impl_lock_first(caller, yocto, receiver) ==
    LET r == try_lock(yocto) IN
    IF r.res # "Ok"
    THEN Outcome(r.res, r.locked, <<>>)
    ELSE IF check_access(caller) # "Ok"
         THEN Outcome(check_access(caller), locked, <<>>)
         ELSE Outcome("Ok", r.locked, <<Transfer(receiver, yocto)>>)

\* (fault variant: the whole-NEAR count is locked, the base-unit amount is sent)
pay_impl_unit_mixup(caller, yocto, receiver) ==
    IF check_access(caller) # "Ok"
    THEN Outcome(check_access(caller), locked, <<>>)
    ELSE LET r == try_lock(yocto \div YoctoPerNear) IN
         IF r.res # "Ok"
         THEN Outcome(r.res, r.locked, <<>>)
         ELSE Outcome("Ok", r.locked, <<Transfer(receiver, yocto)>>)

pay_impl(caller, yocto, receiver) ==
    IF check_access(caller) # "Ok"
    THEN Outcome(check_access(caller), locked, <<>>)
    ELSE LET r == try_lock(yocto) IN
         IF r.res # "Ok"
         THEN Outcome(r.res, r.locked, <<>>)
         ELSE Outcome("Ok", r.locked, <<Transfer(receiver, yocto)>>)

\* Teller::lock_impl
\* (fault variant: the amount is compared with hot but not added to locked)
lock_impl_forgetful(caller, n) ==
    IF check_access(caller) # "Ok"
    THEN Outcome(check_access(caller), locked, <<>>)
    ELSE IF hot < n
         THEN Outcome("NotEnoughHot", locked, <<>>)
         ELSE Outcome("Ok", locked, <<>>)

lock_impl(caller, n) ==
    IF check_access(caller) # "Ok"
    THEN Outcome(check_access(caller), locked, <<>>)
    ELSE LET r == try_lock(n) IN
         IF r.res # "Ok"
         THEN Outcome(r.res, r.locked, <<>>)
         ELSE Outcome("Ok", r.locked, <<>>)

\* Teller::stake_impl
\* (fault variant: check_access is not called)
stake_impl_unguarded(caller, yocto, pool) ==
    Outcome("Ok", locked, <<FunctionCall(pool, "deposit_and_stake", yocto, 0, 1)>>)

\* (fault variant: stake is metered by try_lock like pay)
stake_impl_metered(caller, yocto, pool) ==
    IF check_access(caller) # "Ok"
    THEN Outcome(check_access(caller), locked, <<>>)
    ELSE LET r == try_lock(yocto) IN
         IF r.res # "Ok"
         THEN Outcome(r.res, r.locked, <<>>)
         ELSE Outcome("Ok", locked, <<FunctionCall(pool, "deposit_and_stake", yocto, 0, 1)>>)

\* (fault variant: the staked amount is added to locked)
stake_impl_locking(caller, yocto, pool) ==
    IF check_access(caller) # "Ok"
    THEN Outcome(check_access(caller), locked, <<>>)
    ELSE Outcome("Ok", locked + yocto,
                 <<FunctionCall(pool, "deposit_and_stake", yocto, 0, 1)>>)

stake_impl(caller, yocto, pool) ==
    IF check_access(caller) # "Ok"
    THEN Outcome(check_access(caller), locked, <<>>)
    ELSE Outcome("Ok", locked, <<FunctionCall(pool, "deposit_and_stake", yocto, 0, 1)>>)

\* Teller::unstake_impl
\* (fault variant: the method name of withdraw_impl)
unstake_impl_swapped(caller, pool) ==
    IF check_access(caller) # "Ok"
    THEN Outcome(check_access(caller), locked, <<>>)
    ELSE Outcome("Ok", locked, <<FunctionCall(pool, "withdraw_all", 0, 0, 1)>>)

unstake_impl(caller, pool) ==
    IF check_access(caller) # "Ok"
    THEN Outcome(check_access(caller), locked, <<>>)
    ELSE Outcome("Ok", locked, <<FunctionCall(pool, "unstake_all", 0, 0, 1)>>)

\* Teller::withdraw_impl
withdraw_impl(caller, pool) ==
    IF check_access(caller) # "Ok"
    THEN Outcome(check_access(caller), locked, <<>>)
    ELSE Outcome("Ok", locked, <<FunctionCall(pool, "withdraw_all", 0, 0, 1)>>)

\* staking_pool(i): CONFIG.staking_pools[i] panics out of bounds, then parse()
\* (fault variant: the index wraps around instead of panicking)
staking_pool_wrapping(i) ==
    [res |-> "Ok", pool |-> staking_pools[i % NumPools]]

staking_pool(i) ==
    IF i >= NumPools
    THEN [res |-> "IndexOutOfBounds", pool |-> NoPool]
    ELSE IF staking_pools[i] \notin ValidPoolIds
         THEN [res |-> "InvalidAccount", pool |-> NoPool]
         ELSE [res |-> "Ok", pool |-> staking_pools[i]]

(* ------------------------------ operations ----------------------------- *)

Init ==
    /\ status = "uninit"
    /\ t0 = 0
    /\ locked = 0
    /\ now = 0
    /\ rate \in 0..MaxRate
    /\ transferred = 0
    /\ forgone = 0
    /\ touched = FALSE
    /\ last = Step("deploy", current_account_id, 0, 0, "", "Ok", 0, <<>>)

\* the block timestamp advances between calls
Tick ==
    /\ now < MaxTime
    /\ now' = now + 1
    /\ last' = Step("tick", current_account_id, 0, 0, "", "Ok", 0, <<>>)
    /\ UNCHANGED <<status, t0, locked, rate, transferred, forgone, touched>>

\* a call that the generated entry point rejects before the method runs
Rejected(op, caller, n, i, to, why) ==
    /\ last' = Step(op, caller, n, i, to, why, 0, <<>>)
    /\ UNCHANGED <<status, t0, locked, now, rate, transferred, forgone, touched>>

\* #[init] Teller::init: the generated entry point refuses an existing state
\* (fault variants: init_again runs on an existing state as with
\* #[init(ignore_state)]; init_stale does not read the block timestamp)
init_again(caller) ==
    /\ status' = "active"
    /\ t0' = now
    /\ locked' = 0
    /\ forgone' = 0
    /\ transferred' = 0
    /\ touched' = FALSE
    /\ last' = Step("init", caller, 0, 0, "", "Ok", 0, <<>>)
    /\ UNCHANGED <<now, rate>>

init_stale(caller) ==
    IF status = "active"
    THEN Rejected("init", caller, 0, 0, "", "AlreadyInitialized")
    ELSE /\ status' = "active"
         /\ t0' = 0
         /\ locked' = 0
         /\ last' = Step("init", caller, 0, 0, "", "Ok", 0, <<>>)
         /\ UNCHANGED <<now, rate, transferred, forgone, touched>>

init(caller) ==
    IF status = "active"
    THEN Rejected("init", caller, 0, 0, "", "AlreadyInitialized")
    ELSE /\ status' = "active"
         /\ t0' = now
         /\ locked' = 0
         /\ last' = Step("init", caller, 0, 0, "", "Ok", 0, <<>>)
         /\ UNCHANGED <<now, rate, transferred, forgone, touched>>

\* Teller::pay
\* (fault variant: the whole-NEAR amount is passed on without the 10^24 factor)
pay_unscaled(caller, n, a) ==
    IF status # "active"
    THEN Rejected("pay", caller, n, 0, a, "NotInitialized")
    ELSE LET o == pay_impl(caller, n, a) IN
         /\ locked' = o.locked
         /\ transferred' = transferred + TransferSum(o.actions)
         /\ touched' = (touched \/ o.res = "Ok")
         /\ last' = Step("pay", caller, n, 0, a, o.res, 0, o.actions)
         /\ UNCHANGED <<status, t0, now, rate, forgone>>

\* (fault variant: a missing state is read as the default Teller, t0 = 0 and
\* locked = 0, as with derive(Default) in place of PanicOnDefault)
pay_on_default(caller, n, a) ==
    LET o == pay_impl(caller, NearToYocto(n), a) IN
    /\ locked' = o.locked
    /\ transferred' = transferred + TransferSum(o.actions)
    /\ touched' = (touched \/ o.res = "Ok")
    /\ last' = Step("pay", caller, n, 0, a, o.res, 0, o.actions)
    /\ UNCHANGED <<status, t0, now, rate, forgone>>

\* Teller::pay.  On Err the entry point calls e.panic(); what remains of the call
\* is the receiver as pay_impl left it (test_scenario calls pay_impl directly and
\* reads hot() after the Err), so the outcome's locked is the value kept.
pay(caller, n, a) ==
    IF status # "active"
    THEN Rejected("pay", caller, n, 0, a, "NotInitialized")
    ELSE LET o == pay_impl(caller, NearToYocto(n), a) IN
         /\ locked' = o.locked
         /\ transferred' = transferred + TransferSum(o.actions)
         /\ touched' = (touched \/ o.res = "Ok")
         /\ last' = Step("pay", caller, n, 0, a, o.res, 0, o.actions)
         /\ UNCHANGED <<status, t0, now, rate, forgone>>

\* Teller::lock
lock(caller, n) ==
    IF status # "active"
    THEN Rejected("lock", caller, n, 0, "", "NotInitialized")
    ELSE LET o == lock_impl(caller, NearToYocto(n)) IN
         /\ locked' = o.locked
         /\ forgone' = IF o.res = "Ok" THEN forgone + NearToYocto(n) ELSE forgone
         /\ touched' = (touched \/ o.res = "Ok")
         /\ transferred' = transferred + TransferSum(o.actions)
         /\ last' = Step("lock", caller, n, 0, "", o.res, 0, o.actions)
         /\ UNCHANGED <<status, t0, now, rate>>

\* Teller::hot called as a method of the contract
\* (fault variant: hot is guarded by check_access like the other methods)
view_hot_guarded(caller) ==
    IF status # "active"
    THEN Rejected("hot", caller, 0, 0, "", "NotInitialized")
    ELSE IF check_access(caller) # "Ok"
         THEN Rejected("hot", caller, 0, 0, "", check_access(caller))
         ELSE /\ last' = Step("hot", caller, 0, 0, "", "Ok", hot, <<>>)
              /\ UNCHANGED <<status, t0, locked, now, rate, transferred, forgone, touched>>

view_hot(caller) ==
    IF status # "active"
    THEN Rejected("hot", caller, 0, 0, "", "NotInitialized")
    ELSE /\ last' = Step("hot", caller, 0, 0, "", "Ok", hot, <<>>)
         /\ UNCHANGED <<status, t0, locked, now, rate, transferred, forgone, touched>>

\* Teller::stake
stake(caller, i, n) ==
    IF status # "active"
    THEN Rejected("stake", caller, n, i, "", "NotInitialized")
    ELSE LET p == staking_pool(i) IN
         IF p.res # "Ok"
         THEN Rejected("stake", caller, n, i, "", p.res)
         ELSE LET o == stake_impl(caller, NearToYocto(n), p.pool) IN
              /\ locked' = o.locked
              /\ transferred' = transferred + TransferSum(o.actions)
              /\ last' = Step("stake", caller, n, i, "", o.res, 0, o.actions)
              /\ UNCHANGED <<status, t0, now, rate, forgone, touched>>

\* Teller::unstake
unstake(caller, i) ==
    IF status # "active"
    THEN Rejected("unstake", caller, 0, i, "", "NotInitialized")
    ELSE LET p == staking_pool(i) IN
         IF p.res # "Ok"
         THEN Rejected("unstake", caller, 0, i, "", p.res)
         ELSE LET o == unstake_impl(caller, p.pool) IN
              /\ locked' = o.locked
              /\ transferred' = transferred + TransferSum(o.actions)
              /\ last' = Step("unstake", caller, 0, i, "", o.res, 0, o.actions)
              /\ UNCHANGED <<status, t0, now, rate, forgone, touched>>

\* Teller::withdraw
withdraw(caller, i) ==
    IF status # "active"
    THEN Rejected("withdraw", caller, 0, i, "", "NotInitialized")
    ELSE LET p == staking_pool(i) IN
         IF p.res # "Ok"
         THEN Rejected("withdraw", caller, 0, i, "", p.res)
         ELSE LET o == withdraw_impl(caller, p.pool) IN
              /\ locked' = o.locked
              /\ transferred' = transferred + TransferSum(o.actions)
              /\ last' = Step("withdraw", caller, 0, i, "", o.res, 0, o.actions)
              /\ UNCHANGED <<status, t0, now, rate, forgone, touched>>

(* --------------- base-unit variants: pay_yocto, lock_yocto --------------- *)
(* The unit tests call app.pay_yocto(&str, AccountId) and app.lock_yocto(&str); *)
(* their bodies are not in the sources at hand and are modelled from the       *)
(* specification: parse the decimal string, fail if it does not parse, then   *)
(* proceed as pay and lock do with the parsed amount.                         *)

\* the value of a decimal digit, -1 for any other character
DigitValue(ch) ==
    CASE ch = "0" -> 0 [] ch = "1" -> 1 [] ch = "2" -> 2 [] ch = "3" -> 3
      [] ch = "4" -> 4 [] ch = "5" -> 5 [] ch = "6" -> 6 [] ch = "7" -> 7
      [] ch = "8" -> 8 [] ch = "9" -> 9 [] OTHER -> -1

\* the decimal digit of a value below ten
DigitChar(d) ==
    <<"0", "1", "2", "3", "4", "5", "6", "7", "8", "9">>[d + 1]

\* the digits of str read left to right onto acc; -1 when a character is no digit
RECURSIVE ParseDigits(_, _)
ParseDigits(str, acc) ==
    IF str = <<>>
    THEN acc
    ELSE IF DigitValue(Head(str)) < 0
         THEN -1
         ELSE ParseDigits(Tail(str), acc * 10 + DigitValue(Head(str)))

\* str.parse::<u128>(): an optional + and at least one digit, nothing else
ParseYocto(str) ==
    LET digits == IF str # <<>> /\ Head(str) = "+" THEN Tail(str) ELSE str
        v == IF digits = <<>> THEN -1 ELSE ParseDigits(digits, 0)
    IN  [ok |-> v >= 0, value |-> v]

\* format!("{v}"): the decimal digits of v, most significant first
RECURSIVE FormatYocto(_)
FormatYocto(v) ==
    IF v < 10
    THEN <<DigitChar(v)>>
    ELSE Append(FormatYocto(v \div 10), DigitChar(v % 10))

\* amount strings explored: the whole-NEAR amounts in base units, one NEAR
\* written with a sign and with a leading zero, and strings that do not parse
YoctoStrings ==
    {FormatYocto(NearToYocto(n)) : n \in 0..MaxNear}
      \cup {<<"+", "1", "0">>, <<"0", "1", "0">>, <<>>, <<"1", "x">>}

\* what pay_yocto does with the receiver: the result, locked, the actions
pay_yocto_outcome(caller, str, a) ==
    IF ~ParseYocto(str).ok
    THEN Outcome("MalformedAmount", locked, <<>>)
    ELSE pay_impl(caller, ParseYocto(str).value, a)

\* what lock_yocto does with the receiver
lock_yocto_outcome(caller, str) ==
    IF ~ParseYocto(str).ok
    THEN Outcome("MalformedAmount", locked, <<>>)
    ELSE lock_impl(caller, ParseYocto(str).value)

\* Teller::pay_yocto
pay_yocto(caller, str, a) ==
    IF status # "active"
    THEN /\ last' = YoctoStep("pay_yocto", caller, str, a, "NotInitialized", <<>>)
         /\ UNCHANGED <<status, t0, locked, now, rate, transferred, forgone, touched>>
    ELSE LET o == pay_yocto_outcome(caller, str, a) IN
         /\ locked' = o.locked
         /\ transferred' = transferred + TransferSum(o.actions)
         /\ touched' = (touched \/ o.res = "Ok")
         /\ last' = YoctoStep("pay_yocto", caller, str, a, o.res, o.actions)
         /\ UNCHANGED <<status, t0, now, rate, forgone>>

\* Teller::lock_yocto
lock_yocto(caller, str) ==
    IF status # "active"
    THEN /\ last' = YoctoStep("lock_yocto", caller, str, "", "NotInitialized", <<>>)
         /\ UNCHANGED <<status, t0, locked, now, rate, transferred, forgone, touched>>
    ELSE LET o == lock_yocto_outcome(caller, str) IN
         /\ locked' = o.locked
         /\ forgone' = IF o.res = "Ok" THEN forgone + ParseYocto(str).value ELSE forgone
         /\ touched' = (touched \/ o.res = "Ok")
         /\ transferred' = transferred + TransferSum(o.actions)
         /\ last' = YoctoStep("lock_yocto", caller, str, "", o.res, o.actions)
         /\ UNCHANGED <<status, t0, now, rate>>

Next ==
    \/ Tick
    \/ \E c \in Accounts : init(c)
    \/ \E c \in Accounts, n \in 0..MaxNear, a \in Receivers : pay(c, n, a)
    \/ \E c \in Accounts, n \in 0..MaxNear : lock(c, n)
    \/ \E c \in Accounts : view_hot(c)
    \/ \E c \in Accounts, i \in PoolIndexes, n \in 0..MaxNear : stake(c, i, n)
    \/ \E c \in Accounts, i \in PoolIndexes : unstake(c, i)
    \/ \E c \in Accounts, i \in PoolIndexes : withdraw(c, i)

Spec == Init /\ [][Next]_vars

\* the block timestamp keeps advancing (up to the horizon explored)
SpecFair == Init /\ [][Next]_vars /\ WF_vars(Tick)

\* the ledger operations together with their base-unit variants
NextYocto ==
    \/ Tick
    \/ \E c \in Accounts : init(c)
    \/ \E c \in Accounts, n \in 0..MaxNear, a \in Receivers : pay(c, n, a)
    \/ \E c \in Accounts, n \in 0..MaxNear : lock(c, n)
    \/ \E c \in Accounts, str \in YoctoStrings, a \in Receivers : pay_yocto(c, str, a)
    \/ \E c \in Accounts, str \in YoctoStrings : lock_yocto(c, str)

SpecYocto == Init /\ [][NextYocto]_vars

TypeOK ==
    /\ status \in {"uninit", "active"}
    /\ t0 \in 0..MaxTime
    /\ now \in 0..MaxTime
    /\ rate \in 0..MaxRate
    /\ locked \in Nat
    /\ transferred \in Nat
    /\ forgone \in Nat
    /\ touched \in BOOLEAN

(* ------------------------------- claims -------------------------------- *)

Active == status = "active"

Guarded == {"pay", "lock", "stake", "unstake", "withdraw"}

\* the step just taken was a call of pay or lock by the contract account on an
\* active instance; last' describes it
SelfLedgerCall ==
    /\ Active
    /\ last'.op \in {"pay", "lock"}
    /\ last'.caller = current_account_id

\* C1: on an active instance locked never exceeds the allowance accrued so far,
\* (now - t0) * rate, that is hot() >= 0, whatever calls and time advances happened.
C1_LockedWithinAccrued ==
    Active => (locked <= (now - t0) * rate /\ hot >= 0)

\* C1 witness: a successful pay has used the allowance up to the last unit.
C1_Witness ==
    /\ Active /\ locked > 0 /\ locked = (now - t0) * rate
    /\ last.op = "pay" /\ last.result = "Ok" /\ last.n > 0

\* C2: the transfers dispatched by pay sum to at most the accrued allowance;
\* what stake attaches is not part of that sum.
C2_TransfersWithinAccrued ==
    Active => transferred <= (now - t0) * rate

\* C2 witness: transfers were dispatched, and a stake was then dispatched that
\* attaches more than the allowance those transfers left.
C2_Witness ==
    /\ Active /\ transferred > 0
    /\ last.op = "stake" /\ last.result = "Ok" /\ Len(last.actions) = 1
    /\ last.actions[1].deposit + transferred > (now - t0) * rate

\* C3: a call of pay, lock, stake, unstake or withdraw by a foreign caller
\* dispatches no outbound action and leaves locked as it was.
C3_ForeignNoEffect ==
    [][(last'.op \in Guarded /\ last'.caller # current_account_id)
         => (last'.actions = <<>> /\ locked' = locked /\ transferred' = transferred)]_vars

\* C3 witness: a foreign caller tried to stake a positive amount with a valid
\* pool on an active instance and was refused.
C3_Witness ==
    /\ Active /\ last.op = "stake" /\ last.caller # current_account_id
    /\ last.i < NumPools /\ last.n > 0
    /\ last.result = "ForeignAccountNotAllowed"

\* C4 (as claimed): every call of init, pay, lock, stake, unstake or withdraw by
\* a foreign caller fails with ForeignAccountNotAllowed, whatever its other
\* arguments: init on a fresh instance, the others on an active one.
C4_ForeignAlwaysRefused ==
    [][((\/ (last'.op = "init" /\ ~Active)
         \/ (last'.op \in Guarded /\ Active))
        /\ last'.caller # current_account_id)
         => last'.result = "ForeignAccountNotAllowed"]_vars

\* C5: a pay or lock by the contract account with amount a succeeds exactly when
\* a <= hot(); on success locked grows by exactly a; a = hot() succeeds and
\* leaves hot() = 0; a = hot() + 1 fails with NotEnoughHot.
C5_SucceedsIffWithinHot ==
    [][SelfLedgerCall =>
        LET a == NearToYocto(last'.n) IN
        /\ (last'.result = "Ok") <=> (a <= hot)
        /\ (last'.result = "Ok") => (locked' = locked + a)
        /\ (a = hot) => (last'.result = "Ok" /\ hot' = 0)
        /\ (a = hot + 1) => (last'.result = "NotEnoughHot")]_vars

\* C5 witness: after an earlier success, a call asked for one unit more than
\* hot() and failed with NotEnoughHot.
C5_Witness ==
    /\ Active /\ touched /\ last.op \in {"pay", "lock"}
    /\ last.caller = current_account_id
    /\ last.result = "NotEnoughHot" /\ NearToYocto(last.n) = hot + 1

\* C6: hot() equals the accrued allowance minus the sum of the amounts of all
\* successful pay and lock calls and is never negative; a pay or lock whose
\* amount would make it negative fails with NotEnoughHot and leaves locked alone.
C6_HotIsAccruedMinusSpent ==
    /\ [](Active => (hot = (now - t0) * rate - (transferred + forgone)
                     /\ (now - t0) * rate - (transferred + forgone) >= 0))
    /\ [][(SelfLedgerCall /\ hot - NearToYocto(last'.n) < 0)
            => (last'.result = "NotEnoughHot" /\ locked' = locked)]_vars

\* C6 witness: pays and locks both succeeded, time advanced, a later call failed
\* with NotEnoughHot, and some allowance is still left.
C6_Witness ==
    /\ Active /\ transferred > 0 /\ forgone > 0 /\ hot > 0
    /\ last.result = "NotEnoughHot"

\* C7: as long as no pay or lock has succeeded, hot() is the elapsed time since
\* init times the rate; right after init it is 0.
C7_UntouchedHotIsAccrued ==
    /\ [](Active /\ ~touched => hot = (now - t0) * rate)
    /\ [][(last'.op = "hot" /\ last'.result = "Ok" /\ ~touched)
            => last'.ret = (now - t0) * rate]_vars
    /\ [][(last'.op = "init" /\ last'.result = "Ok") => hot' = 0]_vars

\* C7 witness: initialised at a time after 0, nothing paid or locked, time went
\* on and hot() returned a positive amount.
C7_Witness ==
    /\ Active /\ ~touched /\ t0 > 0 /\ now > t0
    /\ last.op = "hot" /\ last.result = "Ok" /\ last.ret > 0

\* C8: a call that fails with NotEnoughHot or ForeignAccountNotAllowed leaves
\* t0, locked and hot() as they were before the call.
C8_RejectionChangesNothing ==
    [][(last'.op \in (Guarded \cup {"init", "hot"})
        /\ last'.result \in {"NotEnoughHot", "ForeignAccountNotAllowed"})
         => (t0' = t0 /\ locked' = locked /\ hot' = hot)]_vars

\* C8 witness: a pay of a positive amount failed with NotEnoughHot on an
\* instance that has locked something and still has allowance left.
C8_Witness ==
    /\ Active /\ locked > 0 /\ hot > 0
    /\ last.op = "pay" /\ last.result = "NotEnoughHot" /\ last.n > 0

\* C9: locked never decreases in any step, a repeated init included.
C9_LockedMonotonic ==
    [][locked' >= locked]_vars

\* C9 witness: init was called again on an instance that has locked something.
C9_Witness ==
    /\ Active /\ locked > 0
    /\ last.op = "init" /\ last.result = "AlreadyInitialized"

\* C10: t0 is set once, by the initializer, to the timestamp of the initializing
\* call; no later step changes it.
C10_T0SetOnce ==
    [][/\ (last'.op = "init" /\ last'.result = "Ok") => (~Active /\ t0' = now)
       /\ Active => (t0' = t0 /\ status' = "active")
       /\ (~Active /\ last'.op # "init") => (t0' = t0 /\ status' = status)]_vars

\* C10 witness: initialised at a time after 0, then, later, a second init and
\* other calls were made and t0 is still the time of the first init.
C10_Witness ==
    /\ Active /\ t0 > 0 /\ now > t0 /\ touched
    /\ last.op = "init" /\ last.result = "AlreadyInitialized"

\* C11: init takes an uninitialized instance to active, setting t0 to the
\* current timestamp and locked to zero; on an active instance it fails and
\* leaves t0 and locked as they were; the instance never becomes uninitialized.
C11_InitOnce ==
    [][/\ (last'.op = "init" /\ ~Active)
            => (last'.result = "Ok" /\ status' = "active" /\ t0' = now /\ locked' = 0)
       /\ (last'.op = "init" /\ Active)
            => (last'.result # "Ok" /\ status' = "active" /\ t0' = t0 /\ locked' = locked)
       /\ (status' # status) => (last'.op = "init" /\ ~Active)]_vars

\* C11 witness: the contract account itself called init again, later than the
\* first init, on an instance that has forgone something.
C11_Witness ==
    /\ Active /\ forgone > 0 /\ now > t0
    /\ last.op = "init" /\ last.caller = current_account_id
    /\ last.result = "AlreadyInitialized"

\* C12: a stake by the contract account with a pool index inside the list
\* succeeds and dispatches its call for every amount, also above hot(), and
\* hot() is the same before and after.
C12_StakeUnmetered ==
    [][(Active /\ last'.op = "stake" /\ last'.caller = current_account_id
        /\ last'.i < NumPools)
         => /\ last'.result = "Ok"
            /\ Len(last'.actions) = 1
            /\ last'.actions[1].deposit = NearToYocto(last'.n)
            /\ hot' = hot]_vars

\* C12 witness: a stake of more than hot() succeeded while some allowance was
\* already locked.
C12_Witness ==
    /\ Active /\ locked > 0 /\ hot >= 0
    /\ last.op = "stake" /\ last.result = "Ok" /\ NearToYocto(last.n) > hot

\* C13: stake, unstake and withdraw with a pool index outside the list fail,
\* dispatch nothing and change neither t0 nor locked; on an active instance the
\* failure is the out-of-bounds panic.
C13_BadPoolIndexFails ==
    [][(last'.op \in {"stake", "unstake", "withdraw"} /\ last'.i >= NumPools)
         => /\ last'.result # "Ok"
            /\ Active => last'.result = "IndexOutOfBounds"
            /\ last'.actions = <<>>
            /\ t0' = t0 /\ locked' = locked]_vars

\* C13 witness: the contract account called unstake with index 10 on an active
\* instance.
C13_Witness ==
    /\ Active /\ last.op = "unstake" /\ last.caller = current_account_id
    /\ last.i = NumPools /\ last.result = "IndexOutOfBounds"

\* C14: hot() on an active instance succeeds for any caller, returns
\* (now - t0) * rate - locked, changes neither t0 nor locked and dispatches nothing.
C14_HotIsPureRead ==
    [][(Active /\ last'.op = "hot")
         => /\ last'.result = "Ok"
            /\ last'.ret = (now - t0) * rate - locked
            /\ last'.actions = <<>>
            /\ t0' = t0 /\ locked' = locked /\ transferred' = transferred]_vars

\* C14 witness: a foreign caller read a positive hot() from an instance that has
\* locked something.
C14_Witness ==
    /\ Active /\ locked > 0
    /\ last.op = "hot" /\ last.caller # current_account_id
    /\ last.result = "Ok" /\ last.ret > 0

\* C15: a pay dispatches a transfer only when the access check passed and locked
\* was increased by the amount in the same call; a successful pay(amount, to)
\* dispatches exactly one transfer of amount to to, a failed pay none; lock
\* dispatches nothing.
C15_PayStages ==
    [][/\ (last'.op = "pay" /\ last'.actions # <<>>)
            => /\ last'.caller = current_account_id
               /\ locked' = locked + NearToYocto(last'.n)
               /\ last'.result = "Ok"
       /\ (last'.op = "pay" /\ last'.result = "Ok")
            => last'.actions = <<Transfer(last'.to, NearToYocto(last'.n))>>
       /\ (last'.op = "pay" /\ last'.result # "Ok") => last'.actions = <<>>
       /\ (last'.op = "lock") => last'.actions = <<>>]_vars

\* C15 witness: a pay of a positive amount to bob.near succeeded after an
\* earlier lock.
C15_Witness ==
    /\ Active /\ forgone > 0
    /\ last.op = "pay" /\ last.result = "Ok" /\ last.n > 0 /\ last.to = "bob.near"
    /\ Len(last.actions) = 1

\* C16: each successful stake, unstake or withdraw dispatches exactly one call
\* to pools[pool_index]: deposit_and_stake with the amount attached,
\* unstake_all with nothing attached, withdraw_all with nothing attached, each
\* with gas 0 and gas weight 1.
C16_DelegateCalls ==
    [][(last'.op \in {"stake", "unstake", "withdraw"} /\ last'.result = "Ok")
         => last'.actions =
              << [kind |-> "function_call",
                  to |-> staking_pools[last'.i],
                  method |-> CASE last'.op = "stake" -> "deposit_and_stake"
                               [] last'.op = "unstake" -> "unstake_all"
                               [] last'.op = "withdraw" -> "withdraw_all",
                  deposit |-> IF last'.op = "stake" THEN last'.n * YoctoPerNear ELSE 0,
                  gas |-> 0,
                  weight |-> 1] >>]_vars

\* C16 witness: an unstake for the last pool of the list succeeded.
C16_Witness ==
    /\ Active /\ last.op = "unstake" /\ last.result = "Ok"
    /\ last.i = NumPools - 1 /\ Len(last.actions) = 1

\* C19: a pay or lock by a foreign caller with an amount above hot() fails with
\* ForeignAccountNotAllowed, the error of the first check, not NotEnoughHot.
C19_FirstErrorSurfaces ==
    [][(Active /\ last'.op \in {"pay", "lock"}
        /\ last'.caller # current_account_id
        /\ NearToYocto(last'.n) > hot)
         => last'.result = "ForeignAccountNotAllowed"]_vars

\* C19 witness: a foreign caller asked pay for more than hot().
C19_Witness ==
    /\ Active /\ last.op = "pay" /\ last.caller # current_account_id
    /\ NearToYocto(last.n) > hot /\ hot > 0
    /\ last.result = "ForeignAccountNotAllowed"

\* C20: locked changes only in a successful pay or lock by the contract account;
\* stake, unstake, withdraw, hot and time advances leave t0 and locked alone.
C20_OnlyPayLockWrite ==
    [][/\ (locked' # locked)
            => /\ last'.op \in {"pay", "lock"}
               /\ last'.result = "Ok"
               /\ last'.caller = current_account_id
       /\ (last'.op \in {"stake", "unstake", "withdraw", "hot", "tick"})
            => (t0' = t0 /\ locked' = locked)]_vars

\* C20 witness: a stake of a positive amount succeeded on an instance whose
\* locked is positive.
C20_Witness ==
    /\ Active /\ locked > 0 /\ t0 > 0
    /\ last.op = "stake" /\ last.result = "Ok" /\ last.n > 0

\* C17: from the same state, pay(n) and pay_yocto(decimal string of n * 10^24)
\* have the same result, the same locked afterwards and the same dispatched
\* transfer; likewise lock(n) and lock_yocto.
C17_WholeAndBaseUnitsAgree ==
    [][/\ (Active /\ last'.op = "pay")
            => LET o == pay_yocto_outcome(last'.caller,
                                          FormatYocto(NearToYocto(last'.n)), last'.to)
               IN  /\ last'.result = o.res
                   /\ locked' = o.locked
                   /\ last'.actions = o.actions
       /\ (Active /\ last'.op = "lock")
            => LET o == lock_yocto_outcome(last'.caller,
                                           FormatYocto(NearToYocto(last'.n)))
               IN  /\ last'.result = o.res
                   /\ locked' = o.locked
                   /\ last'.actions = o.actions
       /\ \A n \in 0..MaxNear :
            (Active /\ last'.op = "pay_yocto"
             /\ last'.s = FormatYocto(NearToYocto(n)))
              => LET o == pay_impl(last'.caller, NearToYocto(n), last'.to)
                 IN  /\ last'.result = o.res
                     /\ locked' = o.locked
                     /\ last'.actions = o.actions
       /\ \A n \in 0..MaxNear :
            (Active /\ last'.op = "lock_yocto"
             /\ last'.s = FormatYocto(NearToYocto(n)))
              => LET o == lock_impl(last'.caller, NearToYocto(n))
                 IN  /\ last'.result = o.res
                     /\ locked' = o.locked
                     /\ last'.actions = o.actions]_vars

\* C17 witness: pay_yocto("10"), the base-unit string of one NEAR, succeeded
\* and used the allowance up, after a lock had succeeded.
C17_Witness ==
    /\ Active /\ forgone > 0 /\ hot = 0
    /\ last.op = "pay_yocto" /\ last.s = <<"1", "0">> /\ last.result = "Ok"
    /\ Len(last.actions) = 1

\* C18: with rate > 0 and time that keeps advancing, for every amount a that the
\* allowance can reach within the time explored, a state with hot() >= a is
\* eventually reached unless another pay or lock succeeds first; in such a state
\* a pay or lock of a by the contract account succeeds.
C18_WaitingRecovers ==
    /\ \A n \in 0..MaxNear :
         (Active /\ rate > 0
          /\ NearToYocto(n) <= (MaxTime - t0) * rate - locked)
           ~> (\/ hot >= NearToYocto(n)
               \/ (last.op \in {"pay", "lock"} /\ last.result = "Ok"))
    /\ [][(SelfLedgerCall /\ hot >= NearToYocto(last'.n))
            => last'.result = "Ok"]_vars

\* C18 witness: a pay or lock of a positive amount succeeded that exceeds what
\* hot() was one tick earlier.
C18_Witness ==
    /\ Active /\ rate > 0 /\ now > t0
    /\ last.op \in {"pay", "lock"} /\ last.result = "Ok" /\ last.n > 0
    /\ last.caller = current_account_id
    /\ NearToYocto(last.n) > (now - 1 - t0) * rate - (locked - NearToYocto(last.n))

\* C21: in every reachable state locked is the sum of the amounts of the
\* transfers dispatched by successful pay calls plus the sum of the amounts
\* forgone by successful lock calls since init.
C21_LockedIsPaidPlusForgone ==
    locked = transferred + forgone

\* C21 witness: both a pay and a lock have succeeded, and the last call, a pay
\* of a positive amount by a foreign caller, was refused.
C21_Witness ==
    /\ Active /\ transferred > 0 /\ forgone > 0
    /\ last.op = "pay" /\ last.n > 0 /\ last.caller # current_account_id
    /\ last.result = "ForeignAccountNotAllowed"

\* C22: while the instance is uninitialized no pay, lock, stake, unstake,
\* withdraw or hot call succeeds and nothing is dispatched or written; the only
\* call that can succeed in that state is init.
C22_UninitializedRefusesAll ==
    /\ [](~Active => (locked = 0 /\ transferred = 0 /\ forgone = 0 /\ ~touched))
    /\ [][(~Active /\ last'.op \in (Guarded \cup {"hot"}))
            => /\ last'.result = "NotInitialized"
               /\ last'.actions = <<>>
               /\ status' = status /\ t0' = t0 /\ locked' = locked]_vars
    /\ [][(~Active /\ last'.op # "tick" /\ last'.result = "Ok")
            => last'.op = "init"]_vars

\* C22 witness: before init, at a time and rate at which the default state would
\* afford it, the contract account called pay for a positive amount and was
\* refused.
C22_Witness ==
    /\ ~Active /\ rate > 0 /\ last.n > 0 /\ NearToYocto(last.n) <= now * rate
    /\ last.op = "pay" /\ last.caller = current_account_id
    /\ last.result = "NotInitialized"

\* the largest value of Balance at the width explored (u128::MAX at width 128)
BalanceMax == 2^BalanceBits - 1

\* C23: with timestamps that never go below t0 and an accrued allowance that
\* fits the width of Balance, no arithmetic of the ledger leaves its range:
\* now - t0 and accrued - locked in hot() are never negative, and locked + amount
\* in a successful try_lock never exceeds the largest Balance.
C23_NoWrap ==
    /\ [](Active => now - t0 >= 0)
    /\ []((Active /\ (now - t0) * rate <= BalanceMax)
            => (now - t0) * rate - locked >= 0)
    /\ [][(Active /\ (now - t0) * rate <= BalanceMax
           /\ last'.op \in {"pay", "lock"} /\ last'.result = "Ok")
            => locked + NearToYocto(last'.n) <= BalanceMax]_vars

\* C23 witness: the accrued allowance is exactly the largest Balance, time has
\* advanced since an init made after time 0, and a pay of a positive amount
\* has just succeeded.
C23_Witness ==
    /\ Active /\ t0 > 0 /\ (now - t0) * rate = BalanceMax
    /\ last.op = "pay" /\ last.result = "Ok" /\ last.n > 0 /\ locked > 0

====
